---- MODULE Spec2Model ----
(***************************************************************************)
(* The call-future bridge of ic-cdk (src/src/ic-cdk/src/api/call.rs):      *)
(* call_raw / call_raw128 / call_raw_internal register an inter-canister   *)
(* call with the host, the host later invokes `callback` or `cleanup`      *)
(* with the raw pointer of the shared CallFutureState, and CallFuture::poll*)
(* hands the recorded outcome to the awaiting task.                        *)
(*                                                                         *)
(* Execution is single threaded: `pc` is the position of the one handler   *)
(* that is running (or "idle" between top-level entry points).  A trap     *)
(* inside a callback rolls the guest memory back to the state it had when  *)
(* the callback was entered (`snap`).                                      *)
(***************************************************************************)
EXTENDS Integers, Sequences, FiniteSets, TLC

\* ------------------------------------------------------------------ bounds
MaxCalls == 1        \* calls dispatched in one behaviour
MaxHandles == 2      \* distinct wakers a poll may supply

Calls == 1..MaxCalls
Handles == 1..MaxHandles

\* Error codes ic0.call_perform returns: accepted, a known reject code, and a
\* code that From<i32> sends to its wildcard arm.
PerformCodes == {0, 2, 7}
\* Reject codes ic0.msg_reject_code reports for a reject: two known codes and
\* a code of the wildcard arm.
RejectCodes == {4, 5, 7}
\* Reply payloads (ic0.msg_arg_data_*).
ReplyData == {<<>>, <<1, 2>>}
\* Reject messages (ic0.msg_reject_msg_*), which the host delivers as UTF-8
\* text: "A" and "AB".
RejectMsgs == {<<65>>, <<65, 66>>}

\* What the host attaches to one callback invocation: a reply (code 0 with
\* argument data) or a reject (non-zero code with a message).
HostMsgs ==
    {[code |-> 0, data |-> d, rejmsg |-> <<>>] : d \in ReplyData}
    \cup {[code |-> k, data |-> <<>>, rejmsg |-> m] :
              k \in RejectCodes, m \in RejectMsgs}

\* Unsigned integers are little-endian sequences of 16-bit limbs: a u64 has
\* four limbs, a u128 eight.  Payments offered to call_raw (u64): 0, 42 and
\* u64::MAX; to call_raw128 (u128): 0, 2^64 + 42 and 2^127 + 2^63 + 42 (both
\* halves have their top bit set).
Pay64 == {<<0, 0, 0, 0>>, <<42, 0, 0, 0>>, <<65535, 65535, 65535, 65535>>}
Pay128 == {<<0, 0, 0, 0, 0, 0, 0, 0>>, <<42, 0, 0, 0, 1, 0, 0, 0>>,
           <<42, 0, 0, 32768, 0, 0, 0, 32768>>}
Apis == {"call_raw", "call_raw128"}
PaymentsOf(api) == IF api = "call_raw" THEN Pay64 ELSE Pay128

\* ------------------------------------------------------------ value shapes
None == [k |-> "None"]
Ok(b) == [k |-> "Ok", bytes |-> b]
Err(rc, m) == [k |-> "Err", code |-> rc, msg |-> m]
IsSome(r) == r.k # "None"

NoWaker == 0

Pending == [k |-> "Pending"]
Ready(r) == [k |-> "Ready", val |-> r]
NoPoll == [k |-> "NoPoll"]

\* ------------------------------------------------------- RejectionCode enum
\* #[repr(i32)] discriminants of the enum: Unknown follows CanisterError = 5.
RejectionCode_repr(rc) ==
    CASE rc = "NoError" -> 0
      [] rc = "SysFatal" -> 1
      [] rc = "SysTransient" -> 2
      [] rc = "DestinationInvalid" -> 3
      [] rc = "CanisterReject" -> 4
      [] rc = "CanisterError" -> 5
      [] rc = "Unknown" -> 6

\* Mutant of RejectionCode_from: the arms for 4 and 5 are swapped.
RejectionCode_from_swapped(code) ==
    CASE code = 0 -> "NoError"
      [] code = 1 -> "SysFatal"
      [] code = 2 -> "SysTransient"
      [] code = 3 -> "DestinationInvalid"
      [] code = 4 -> "CanisterError"
      [] code = 5 -> "CanisterReject"
      [] OTHER -> "Unknown"

\* impl From<i32> for RejectionCode
RejectionCode_from(code) ==
    CASE code = 0 -> "NoError"
      [] code = 1 -> "SysFatal"
      [] code = 2 -> "SysTransient"
      [] code = 3 -> "DestinationInvalid"
      [] code = 4 -> "CanisterReject"
      [] code = 5 -> "CanisterError"
      [] OTHER -> "Unknown"

\* --------------------------------------------------------- host accessors
\* vec![0; len]
ZeroVec(len) == [i \in 1..len |-> 0]

\* ic0.msg_*_copy(dst, offset, size): size bytes of src from offset into dst.
CopyInto(dst, src, offset, size) ==
    [i \in 1..Len(dst) |-> IF i <= size THEN src[offset + i] ELSE dst[i]]

\* Mutant of arg_data_raw: the copy stops one byte short.
arg_data_raw_short(m) ==
    LET len == Len(m.data)
    IN  CopyInto(ZeroVec(len), m.data, 0, IF len > 0 THEN len - 1 ELSE 0)

\* arg_data_raw(): size, allocate, copy.
arg_data_raw(m) ==
    LET len == Len(m.data)
    IN  CopyInto(ZeroVec(len), m.data, 0, len)

\* U+FFFD REPLACEMENT CHARACTER and its UTF-8 encoding.
ReplacementChar == 65533
ReplacementUtf8 == <<239, 191, 189>>

\* String::from_utf8_lossy, for single-byte input: an ASCII byte is its own
\* character, any other byte is malformed on its own and is replaced.
from_utf8_lossy(bytes) ==
    [i \in 1..Len(bytes) |-> IF bytes[i] < 128 THEN bytes[i] ELSE ReplacementChar]

\* The UTF-8 bytes of a string (str::as_bytes).
RECURSIVE as_bytes(_)
as_bytes(s) ==
    IF s = <<>> THEN <<>>
    ELSE (IF Head(s) = ReplacementChar THEN ReplacementUtf8 ELSE <<Head(s)>>)
         \o as_bytes(Tail(s))

\* reject_message(): size, allocate, copy, lossy conversion.
reject_message(m) ==
    LET len == Len(m.rejmsg)
    IN  from_utf8_lossy(CopyInto(ZeroVec(len), m.rejmsg, 0, len))

\* reject_code()
reject_code(m) == RejectionCode_from(m.code)

\* "Couldn't send message", as its character codes would be too long to be
\* useful: the fixed diagnostic string is one token.
CouldntSendMessage == "Couldn't send message"

\* Mutant of OutcomeOf: a NoError completion is stored as an error.
OutcomeOf_noerror_as_err(m) == Err(reject_code(m), reject_message(m))

\* The match of callback and cleanup:
\*   match reject_code() { NoError => Ok(arg_data_raw()), n => Err((n, reject_message())) }
OutcomeOf(m) ==
    IF reject_code(m) = "NoError"
    THEN Ok(arg_data_raw(m))
    ELSE Err(reject_code(m), reject_message(m))

\* The outcome call_raw_internal writes when call_perform returns err_code # 0.
SyncFailure(err_code) == Err(RejectionCode_from(err_code), CouldntSendMessage)

\* ------------------------------------------------- typed wrappers: arguments
\* Typed argument values: a nat8 and a bool.
Nat8(n) == [t |-> "nat8", v |-> n]
Bool(b) == [t |-> "bool", v |-> b]

\* Argument tuples given to call / call_with_payment / call_with_payment128:
\* the empty tuple, a single value, two values.
ArgTuples == {<<>>, <<Nat8(42)>>, <<Nat8(42), Bool(TRUE)>>}

\* The types of a tuple (the R a caller expects when the callee echoes T).
TypesOf(args) == [i \in 1..Len(args) |-> args[i].t]

\* "DIDL"
Magic == <<68, 73, 68, 76>>

\* The one-byte type codes of the primitive types (signed LEB128 of -5, -2).
TypeCode(t) == IF t = "nat8" THEN 123 ELSE 126

\* The one byte of a value.
ValueByte(x) == IF x.t = "bool" THEN (IF x.v THEN 1 ELSE 0) ELSE x.v

\* The value one byte stands for, read at type t.
ValueOf(t, b) == IF t = "bool" THEN Bool(b = 1) ELSE Nat8(b)

\* A byte that is a value of type t.
ValidByte(t, b) == IF t = "bool" THEN b \in {0, 1} ELSE b \in 0..255

\* encode_args: magic, empty type table, the number of values, their types,
\* their bytes.
encode_args(args) ==
    Magic \o <<0, Len(args)>>
          \o [i \in 1..Len(args) |-> TypeCode(args[i].t)]
          \o [i \in 1..Len(args) |-> ValueByte(args[i])]

\* decode_args at the expected types: the message must be well formed (magic,
\* empty type table, k types and k value bytes, nothing after them) and its
\* first values must have the expected types; further values are skipped.
decode_args(bytes, types) ==
    LET n == Len(types)
        k == IF Len(bytes) >= 6 THEN bytes[6] ELSE 0
        wellFormed ==
            /\ Len(bytes) >= 6
            /\ SubSeq(bytes, 1, 4) = Magic
            /\ bytes[5] = 0
            /\ Len(bytes) = 6 + 2 * k
            /\ \A i \in 1..k :
                   \E t \in {"nat8", "bool"} :
                       bytes[6 + i] = TypeCode(t) /\ ValidByte(t, bytes[6 + k + i])
        typed ==
            /\ k >= n
            /\ \A i \in 1..n : bytes[6 + i] = TypeCode(types[i])
    IN  IF wellFormed /\ typed
        THEN [ok |-> TRUE,
              val |-> [i \in 1..n |-> ValueOf(types[i], bytes[6 + k + i])]]
        ELSE [ok |-> FALSE, val |-> <<>>]

\* The typed wrappers and the cycles each is called with; `call` passes 0 to
\* call_raw.
Wrappers == {"call", "call_with_payment", "call_with_payment128"}
WrapperApi(w) == IF w = "call_with_payment128" THEN "call_raw128" ELSE "call_raw"
WrapperCycles(w) ==
    IF w = "call" THEN {<<0, 0, 0, 0>>}
    ELSE IF w = "call_with_payment" THEN {<<42, 0, 0, 0>>}
    ELSE {<<42, 0, 0, 0, 1, 0, 0, 0>>}

TypedOk(v) == [k |-> "Ok", value |-> v]
Trapped == [k |-> "Trapped"]

\* Mutant of async_block: a rejection makes the wrapper trap.
async_block_err_traps(types, ret) ==
    IF ret.k = "Pending" THEN ret
    ELSE IF ret.val.k = "Err" THEN Trapped
    ELSE LET d == decode_args(ret.val.bytes, types)
         IN  IF d.ok THEN [k |-> "Ready", val |-> TypedOk(d.val)] ELSE Trapped

\* Mutant of async_block: a reply that does not decode becomes an Err.
async_block_decode_err(types, ret) ==
    IF ret.k = "Pending" THEN ret
    ELSE IF ret.val.k = "Err" THEN ret
    ELSE LET d == decode_args(ret.val.bytes, types)
         IN  IF d.ok THEN [k |-> "Ready", val |-> TypedOk(d.val)]
             ELSE [k |-> "Ready", val |-> [k |-> "Err", code |-> "CanisterError", msg |-> <<>>]]

\* The async block of the typed wrappers, for one poll of the raw future:
\*   let bytes = fut.await?;
\*   decode_args(&bytes).map_err(|err| trap(&format!("{:?}", err)))
async_block(types, ret) ==
    IF ret.k = "Pending" THEN ret
    ELSE IF ret.val.k = "Err" THEN ret
    ELSE LET d == decode_args(ret.val.bytes, types)
         IN  IF d.ok THEN [k |-> "Ready", val |-> TypedOk(d.val)] ELSE Trapped


\* ------------------------------------------------------------------- state
VARIABLES
    pc,        \* the running handler and its position, or idle
    cell,      \* CallFutureState of each call: result and waker
    rc,        \* the Rc/Arc of each cell: strong count, raw tokens, liveness
    borrows,   \* active borrow_mut guards of each cell
    fut,       \* the CallFuture handle of each call: none, held, dropped
    task,      \* the task awaiting each call
    CLEANUP,   \* crate::futures::CLEANUP
    host,      \* the host's view of each call
    slots,     \* the user-data pointers registered for each call
    pending,   \* host primitives issued for the call under construction
    msg,       \* what the host attached to the callback invocation of a call
    obs,       \* what has been observed of each call (polls, wakes, writes)
    fault,     \* memory and borrow errors that have happened
    snap       \* guest memory at entry of the running callback

vars == <<pc, cell, rc, borrows, fut, task, CLEANUP, host, slots, pending,
          msg, obs, fault, snap>>

Idle == [op |-> "idle", c |-> 0, p |-> 0, at |-> "", w |-> NoWaker,
         api |-> "", pay |-> <<>>, err |-> 0, data |-> <<>>]

NoMsg == [code |-> 0, data |-> <<>>, rejmsg |-> <<>>]

NoObs == [firstPoll |-> NoPoll, afterRec |-> NoPoll, lastPoll |-> NoPoll,
          lastHandle |-> NoWaker, recorded |-> FALSE, readies |-> 0,
          performed |-> FALSE, errCode |-> 0,
          writes |-> 0, woken |-> <<>>, contRuns |-> 0,
          typed |-> FALSE, args |-> <<>>, sent |-> <<>>, out |-> NoPoll]

\* The pointer WasmCell::into_raw yields for the cell of call c.
PtrOf(c) == c

\* ------------------------------------------------------------ WasmCell (Rc)
\* WasmCell::new
WasmCell_new == [strong |-> 1, tokens |-> 0, st |-> "live"]

\* Clone for WasmCell
WasmCell_clone(r) == [r EXCEPT !.strong = @ + 1]

\* WasmCell::into_raw: the share lives on as a raw token.
WasmCell_into_raw(r) == [r EXCEPT !.tokens = @ + 1]

\* WasmCell::from_raw: a raw token becomes a handle again.
WasmCell_from_raw(r) == [r EXCEPT !.tokens = @ - 1]

\* Dropping one handle; the last one destroys the cell.
DropHandle(r) ==
    [r EXCEPT !.strong = @ - 1,
              !.st = IF r.strong = 1 THEN "freed" ELSE @]

\* Mutant of DispatchShares: one share and one token per callback slot.
DispatchShares_two_tokens ==
    WasmCell_into_raw(WasmCell_clone(WasmCell_into_raw(WasmCell_clone(WasmCell_new))))

\* Mutant of DispatchShares: the token is made from the only share.
DispatchShares_no_clone == WasmCell_into_raw(WasmCell_new)

\* call_raw_internal: WasmCell::new(..), then WasmCell::into_raw(state.clone()).
DispatchShares == WasmCell_into_raw(WasmCell_clone(WasmCell_new))

\* Handles of cell c owned by the running handler's local `state`.
LocalShares(c) ==
    IF pc.op = "dispatch" /\ pc.c = c THEN 1
    ELSE IF pc.op \in {"callback", "cleanup"} /\ pc.p = c /\ pc.at # "from_raw"
         THEN 1 ELSE 0

FutShares(c) == IF fut[c] = "held" THEN 1 ELSE 0

\* ------------------------------------------------------------------- Init
Init ==
    /\ pc = Idle
    /\ cell = [c \in Calls |-> [result |-> None, waker |-> NoWaker]]
    /\ rc = [c \in Calls |-> [strong |-> 0, tokens |-> 0, st |-> "unborn"]]
    /\ borrows = [c \in Calls |-> 0]
    /\ fut = [c \in Calls |-> "none"]
    /\ task = [c \in Calls |-> "none"]
    /\ CLEANUP = FALSE
    /\ host = [c \in Calls |-> "unused"]
    /\ slots = [c \in Calls |-> [reply_env |-> 0, reject_env |-> 0, cleanup_env |-> 0]]
    /\ pending = <<>>
    /\ msg = [c \in Calls |-> NoMsg]
    /\ obs = [c \in Calls |-> NoObs]
    /\ fault = {}
    /\ snap = <<>>


\* ------------------------------------------------------- frame conditions
GuestUnchanged == UNCHANGED <<cell, rc, borrows, fut, task, CLEANUP, obs>>
HostUnchanged == UNCHANGED <<host, slots, pending, msg>>

At(op, at) == pc.op = op /\ pc.at = at
Goto(at) == pc' = [pc EXCEPT !.at = at]

\* borrow_mut on a cell that is freed or already borrowed is an error.
BorrowFaults(c) ==
    (IF rc[c].st # "live" THEN {"use_after_free"} ELSE {})
    \cup (IF borrows[c] > 0 THEN {"double_borrow"} ELSE {})

\* ------------------------------------------------------ integer conversions
\* `payment > 0`
GtZero(n) == \E i \in 1..Len(n) : n[i] # 0

\* `(payment >> 64) as u64`: the upper four limbs.
ShiftRight64(n) == SubSeq(n, 5, 8)

\* `(payment & u64::MAX as u128) as u64`: the lower four limbs.
AndU64Max(n) == SubSeq(n, 1, 4)

\* One limb is 16 bits.
LimbMax == 65535
SignLimb == 32768

\* n + 1 modulo 2^(16 * Len(n)).
RECURSIVE AddOne(_)
AddOne(n) ==
    IF n = <<>> THEN <<>>
    ELSE IF Head(n) = LimbMax THEN <<0>> \o AddOne(Tail(n))
         ELSE <<Head(n) + 1>> \o Tail(n)

\* 2^64 - n modulo 2^64: complement every limb, add one.
WrappingNeg(n) == AddOne([i \in 1..Len(n) |-> LimbMax - n[i]])

\* `x as i64` of a u64: the same 64 bits read in two's complement, a value
\* with the top bit set becomes the negative number n - 2^64.
AsI64(n) ==
    IF n[Len(n)] >= SignLimb
    THEN [neg |-> TRUE, mag |-> WrappingNeg(n)]
    ELSE [neg |-> FALSE, mag |-> n]

HostCall(op, hi, lo) == [op |-> op, hi |-> hi, lo |-> lo]

\* Mutant of call_raw_payment: the cycles are added without the `> 0` test.
call_raw_payment_always(payment) ==
    <<HostCall("call_cycles_add", <<>>, AsI64(payment))>>

\* The closure call_raw passes as payment_func.
call_raw_payment(payment) ==
    IF GtZero(payment)
    THEN <<HostCall("call_cycles_add", <<>>, AsI64(payment))>>
    ELSE <<>>

\* Mutant of call_raw128_payment: the two halves change places.
call_raw128_payment_swapped(payment) ==
    IF GtZero(payment)
    THEN LET high == AndU64Max(payment)
             low == ShiftRight64(payment)
         IN  <<HostCall("call_cycles_add128", AsI64(high), AsI64(low))>>
    ELSE <<>>

\* The closure call_raw128 passes as payment_func.
call_raw128_payment(payment) ==
    IF GtZero(payment)
    THEN LET high == ShiftRight64(payment)
             low == AndU64Max(payment)
         IN  <<HostCall("call_cycles_add128", AsI64(high), AsI64(low))>>
    ELSE <<>>

\* Mutant of payment_func: the cycles are added twice.
payment_func_twice(api, payment) ==
    IF api = "call_raw"
    THEN call_raw_payment(payment) \o call_raw_payment(payment)
    ELSE call_raw128_payment(payment) \o call_raw128_payment(payment)

\* payment_func(), the closure handed to call_raw_internal.
payment_func(api, payment) ==
    IF api = "call_raw" THEN call_raw_payment(payment)
    ELSE call_raw128_payment(payment)

\* ------------------------------------------------------- call_raw_internal
\* call_raw / call_raw128 enter call_raw_internal: the cell is created, cloned
\* and the clone turned into state_ptr.
Dispatch(c, api, payment) ==
    /\ pc.op = "idle"
    /\ host[c] = "unused"
    /\ \A d \in Calls : d < c => host[d] # "unused"
    /\ rc' = [rc EXCEPT ![c] = DispatchShares]
    /\ cell' = [cell EXCEPT ![c] = [result |-> None, waker |-> NoWaker]]
    /\ pc' = [Idle EXCEPT !.op = "dispatch", !.c = c, !.p = PtrOf(c),
                          !.at = "call_new", !.api = api, !.pay = payment]
    /\ UNCHANGED <<borrows, fut, task, CLEANUP, obs, fault, snap>>
    /\ HostUnchanged

\* call / call_with_payment / call_with_payment128: the arguments are encoded
\* and call_raw / call_raw128 is entered with the bytes and the cycles.
TypedDispatch(c, wrapper, args, cycles) ==
    /\ pc.op = "idle"
    /\ host[c] = "unused"
    /\ \A d \in Calls : d < c => host[d] # "unused"
    /\ rc' = [rc EXCEPT ![c] = DispatchShares]
    /\ cell' = [cell EXCEPT ![c] = [result |-> None, waker |-> NoWaker]]
    /\ obs' = [obs EXCEPT ![c].typed = TRUE, ![c].args = args]
    /\ pc' = [Idle EXCEPT !.op = "dispatch", !.c = c, !.p = PtrOf(c),
                          !.at = "call_new", !.api = WrapperApi(wrapper),
                          !.pay = cycles, !.data = encode_args(args)]
    /\ UNCHANGED <<borrows, fut, task, CLEANUP, fault, snap>>
    /\ HostUnchanged

\* ic0::call_new(callee, method, callback, state_ptr, callback, state_ptr)
DispatchCallNew ==
    /\ At("dispatch", "call_new")
    /\ pending' = Append(pending, HostCall("call_new", <<>>, <<>>))
    /\ slots' = [slots EXCEPT ![pc.c].reply_env = pc.p, ![pc.c].reject_env = pc.p]
    /\ host' = [host EXCEPT ![pc.c] = "registered"]
    /\ Goto("data_append")
    /\ GuestUnchanged
    /\ UNCHANGED <<msg, fault, snap>>

\* ic0::call_data_append(args_raw)
DispatchDataAppend ==
    /\ At("dispatch", "data_append")
    /\ pending' = Append(pending, HostCall("call_data_append", <<>>, pc.data))
    /\ obs' = [obs EXCEPT ![pc.c].sent = pc.data]
    /\ Goto("payment")
    /\ UNCHANGED <<cell, rc, borrows, fut, task, CLEANUP>>
    /\ UNCHANGED <<host, slots, msg, fault, snap>>

\* payment_func()
DispatchPayment ==
    /\ At("dispatch", "payment")
    /\ pending' = pending \o payment_func(pc.api, pc.pay)
    /\ Goto("on_cleanup")
    /\ GuestUnchanged
    /\ UNCHANGED <<host, slots, msg, fault, snap>>

\* ic0::call_on_cleanup(cleanup, state_ptr)
DispatchOnCleanup ==
    /\ At("dispatch", "on_cleanup")
    /\ pending' = Append(pending, HostCall("call_on_cleanup", <<>>, <<>>))
    /\ slots' = [slots EXCEPT ![pc.c].cleanup_env = pc.p]
    /\ Goto("perform")
    /\ GuestUnchanged
    /\ UNCHANGED <<host, msg, fault, snap>>

\* ic0::call_perform(): the host accepts (0) or rejects synchronously.
DispatchPerform(err_code) ==
    /\ At("dispatch", "perform")
    /\ pending' = Append(pending, HostCall("call_perform", <<>>, <<>>))
    /\ host' = [host EXCEPT ![pc.c] = IF err_code = 0 THEN "accepted" ELSE "rejected"]
    /\ pc' = [pc EXCEPT !.at = "check", !.err = err_code]
    /\ obs' = [obs EXCEPT ![pc.c].performed = TRUE, ![pc.c].errCode = err_code]
    /\ UNCHANGED <<cell, rc, borrows, fut, task, CLEANUP>>
    /\ UNCHANGED <<slots, msg, fault, snap>>

\* Mutant of DispatchCheck: the failure is written whatever call_perform said.
DispatchCheck_writes_on_accept ==
    /\ At("dispatch", "check")
    /\ fault' = fault \cup BorrowFaults(pc.c)
    /\ borrows' = [borrows EXCEPT ![pc.c] = @ + 1]
    /\ cell' = [cell EXCEPT ![pc.c].result = SyncFailure(pc.err)]
    /\ obs' = [obs EXCEPT ![pc.c].writes = @ + 1]
    /\ Goto("written")
    /\ UNCHANGED <<rc, fut, task, CLEANUP, snap>>
    /\ HostUnchanged

\* if err_code != 0 { let mut state = state.borrow_mut(); state.result = Some(Err(..)) }
DispatchCheck ==
    /\ At("dispatch", "check")
    /\ IF pc.err # 0
       THEN /\ fault' = fault \cup BorrowFaults(pc.c)
            /\ borrows' = [borrows EXCEPT ![pc.c] = @ + 1]
            /\ cell' = [cell EXCEPT ![pc.c].result = SyncFailure(pc.err)]
            /\ obs' = [obs EXCEPT ![pc.c].writes = @ + 1]
            /\ Goto("written")
       ELSE /\ UNCHANGED <<fault, borrows, cell, obs>>
            /\ Goto("ret")
    /\ UNCHANGED <<rc, fut, task, CLEANUP, snap>>
    /\ HostUnchanged

\* The end of the if block drops the guard.
DispatchUnborrow ==
    /\ At("dispatch", "written")
    /\ borrows' = [borrows EXCEPT ![pc.c] = @ - 1]
    /\ Goto("ret")
    /\ UNCHANGED <<cell, rc, fut, task, CLEANUP, obs, fault, snap>>
    /\ HostUnchanged

\* CallFuture { state }: the local handle moves into the returned future.
DispatchReturn ==
    /\ At("dispatch", "ret")
    /\ fut' = [fut EXCEPT ![pc.c] = "held"]
    /\ task' = [task EXCEPT ![pc.c] = "waiting"]
    /\ pending' = <<>>
    /\ pc' = Idle
    /\ UNCHANGED <<cell, rc, borrows, CLEANUP, obs, fault, snap>>
    /\ UNCHANGED <<host, slots, msg>>


\* -------------------------------------------------------- CallFuture::poll
\* Mutant of CallFuture_poll: the outcome is read but left in the cell.
CallFuture_poll_no_take(st, h) ==
    IF IsSome(st.result)
    THEN [ret |-> Ready(st.result), st |-> st]
    ELSE [ret |-> Pending, st |-> [st EXCEPT !.waker = h]]

\* Mutant of CallFuture_poll: a waker that is already stored is kept.
CallFuture_poll_keep_waker(st, h) ==
    IF IsSome(st.result)
    THEN [ret |-> Ready(st.result), st |-> [st EXCEPT !.result = None]]
    ELSE [ret |-> Pending,
          st |-> [st EXCEPT !.waker = IF @ = NoWaker THEN h ELSE @]]

\* if let Some(result) = state.result.take() { Ready(result) }
\* else { state.waker = Some(context.waker().clone()); Pending }
CallFuture_poll(st, h) ==
    IF IsSome(st.result)
    THEN [ret |-> Ready(st.result), st |-> [st EXCEPT !.result = None]]
    ELSE [ret |-> Pending, st |-> [st EXCEPT !.waker = h]]

\* What the future handed to the awaiting task yields for the result ret of
\* a poll of the CallFuture: ret itself for call_raw / call_raw128, the
\* output of the async block for a typed wrapper.
TaskOutput(o, ret) ==
    IF o.typed THEN async_block(TypesOf(o.args), ret) ELSE ret

\* What a poll with waker h that returned ret adds to the observations
\* (lastHandle is the waker of the latest Pending poll: a Ready poll stores
\* none).
ObservePoll(o, ret, h) ==
    [o EXCEPT !.firstPoll = IF @ = NoPoll THEN ret ELSE @,
              !.afterRec = IF o.recorded /\ @ = NoPoll THEN ret ELSE @,
              !.lastPoll = ret,
              !.lastHandle = IF ret.k = "Pending" THEN h ELSE @,
              !.readies = IF ret.k = "Ready" THEN @ + 1 ELSE @,
              !.out = IF o.typed /\ ret.k = "Ready" /\ TaskOutput(o, ret) # Trapped
                      THEN TaskOutput(o, ret) ELSE @]

\* The code after `.await` has run to its end.
ObserveContinuation(o) == [o EXCEPT !.contRuns = @ + 1]

\* The holder of the future polls it from a top-level entry point (the first
\* poll of the task that made the call, or a combinator polling again).  A
\* Ready result lets the awaiting task run its continuation.
Poll(c, h) ==
    /\ pc.op = "idle"
    /\ fut[c] = "held"
    /\ LET r == CallFuture_poll(cell[c], h)
           resumes == r.ret.k = "Ready" /\ task[c] = "waiting"
       IN  /\ TaskOutput(obs[c], r.ret) # Trapped
           /\ cell' = [cell EXCEPT ![c] = r.st]
           /\ fault' = fault \cup BorrowFaults(c)
           /\ obs' = [obs EXCEPT ![c] =
                        IF resumes THEN ObserveContinuation(ObservePoll(@, r.ret, h))
                        ELSE ObservePoll(@, r.ret, h)]
           /\ task' = [task EXCEPT ![c] = IF resumes THEN "done" ELSE @]
    /\ UNCHANGED <<pc, rc, borrows, fut, CLEANUP, snap>>
    /\ HostUnchanged

\* The holder drops the CallFuture; dropping it before the task got the
\* outcome abandons the call.
DropFuture(c) ==
    /\ pc.op = "idle"
    /\ fut[c] = "held"
    /\ fut' = [fut EXCEPT ![c] = "dropped"]
    /\ rc' = [rc EXCEPT ![c] = DropHandle(@)]
    /\ task' = [task EXCEPT ![c] = IF @ = "waiting" THEN "abandoned" ELSE @]
    /\ UNCHANGED <<pc, cell, borrows, CLEANUP, obs, fault, snap>>
    /\ HostUnchanged

\* ------------------------------------------------------- trap and rollback
\* Guest memory, as the host saves it when it enters a callback.
Snapshot == [cell |-> cell, rc |-> rc, borrows |-> borrows, fut |-> fut,
             task |-> task, CLEANUP |-> CLEANUP, obs |-> obs]

\* Mutant of Rollback: the share counts survive the trap.
Rollback_keeps_rc(c) ==
    /\ cell' = snap[1].cell
    /\ rc' = rc
    /\ borrows' = snap[1].borrows
    /\ fut' = snap[1].fut
    /\ task' = snap[1].task
    /\ CLEANUP' = snap[1].CLEANUP
    /\ obs' = snap[1].obs
    /\ host' = [host EXCEPT ![c] = "trapped"]
    /\ msg' = [msg EXCEPT ![c] = NoMsg]
    /\ snap' = <<>>
    /\ pc' = Idle
    /\ UNCHANGED <<slots, pending, fault>>

\* A trap in the callback of call c: every change the callback made to the
\* guest is undone, and the host will run the cleanup callback of the call.
Rollback(c) ==
    /\ cell' = snap[1].cell
    /\ rc' = snap[1].rc
    /\ borrows' = snap[1].borrows
    /\ fut' = snap[1].fut
    /\ task' = snap[1].task
    /\ CLEANUP' = snap[1].CLEANUP
    /\ obs' = snap[1].obs
    /\ host' = [host EXCEPT ![c] = "trapped"]
    /\ msg' = [msg EXCEPT ![c] = NoMsg]
    /\ snap' = <<>>
    /\ pc' = Idle
    /\ UNCHANGED <<slots, pending, fault>>


\* ------------------------------------------------- steps shared by callbacks
\* from_raw of a pointer whose token was already used, or whose cell is gone.
TokenFaults(p) ==
    IF rc[p].tokens <= 0 \/ rc[p].st # "live" THEN {"invalid_token"} ELSE {}

\* An outcome was written by callback or cleanup.
ObserveRecord(o) ==
    [o EXCEPT !.writes = @ + 1, !.recorded = TRUE, !.afterRec = NoPoll]

ObserveWake(o, w) == [o EXCEPT !.woken = Append(@, w)]

\* The host enters `callback` for call c with message m: the reply and the
\* reject slot were registered with their own user-data pointer.
Invoke(c, m) ==
    /\ pc.op = "idle"
    /\ msg' = [msg EXCEPT ![c] = m]
    /\ snap' = <<Snapshot>>
    /\ pc' = [Idle EXCEPT !.op = "callback", !.c = c, !.at = "from_raw",
                          !.p = IF m.code = 0 THEN slots[c].reply_env
                                ELSE slots[c].reject_env]
    /\ GuestUnchanged
    /\ UNCHANGED <<host, slots, pending, fault>>

\* ----------------------------------------------------------------- callback
\* The host delivers the reply or reject of an accepted call.
HostCompletion(c, m) ==
    /\ host[c] = "accepted"
    /\ Invoke(c, m)

\* let state = unsafe { WasmCell::from_raw(state_ptr) };
CallbackFromRaw ==
    /\ At("callback", "from_raw")
    /\ fault' = fault \cup TokenFaults(pc.p)
    /\ rc' = [rc EXCEPT ![pc.p] = WasmCell_from_raw(@)]
    /\ Goto("record")
    /\ UNCHANGED <<cell, borrows, fut, task, CLEANUP, obs, snap>>
    /\ HostUnchanged

\* The outcome `callback` stores for the message the host attached.
callback_result(m) == OutcomeOf(m)

\* state.borrow_mut().result = Some(match reject_code() { .. });
CallbackRecord ==
    /\ At("callback", "record")
    /\ fault' = fault \cup BorrowFaults(pc.p)
    /\ borrows' = [borrows EXCEPT ![pc.p] = @ + 1]
    /\ cell' = [cell EXCEPT ![pc.p].result = callback_result(msg[pc.c])]
    /\ obs' = [obs EXCEPT ![pc.p] = ObserveRecord(@)]
    /\ Goto("recorded")
    /\ UNCHANGED <<rc, fut, task, CLEANUP, snap>>
    /\ HostUnchanged

\* Borrows `callback` still holds when the block around the write ends.
callback_borrows_after_write == 0

\* Mutant of CallbackUnborrow: the guard of the write outlives the block.
CallbackUnborrow_guard_kept ==
    /\ At("callback", "recorded")
    /\ Goto("take")
    /\ UNCHANGED <<cell, rc, borrows, fut, task, CLEANUP, obs, fault, snap>>
    /\ HostUnchanged

\* "Make sure to un-borrow_mut the state": the block ends, the guard drops.
CallbackUnborrow ==
    /\ At("callback", "recorded")
    /\ borrows' = [borrows EXCEPT ![pc.p] = callback_borrows_after_write]
    /\ Goto("take")
    /\ UNCHANGED <<cell, rc, fut, task, CLEANUP, obs, fault, snap>>
    /\ HostUnchanged

\* Mutant of waker_take: the waker is read but left in the slot.
waker_take_left(w) == w

\* Option::take on the waker slot: what the slot holds afterwards.
waker_take(w) == NoWaker

\* Mutant of CallbackTake: the waker is taken and never signalled.
CallbackTake_no_wake ==
    /\ At("callback", "take")
    /\ fault' = fault \cup BorrowFaults(pc.p)
    /\ cell' = [cell EXCEPT ![pc.p].waker = waker_take(@)]
    /\ pc' = [pc EXCEPT !.w = cell[pc.p].waker, !.at = "ret"]
    /\ UNCHANGED <<rc, borrows, fut, task, CLEANUP, obs, snap>>
    /\ HostUnchanged

\* let w = state.borrow_mut().waker.take();
CallbackTake ==
    /\ At("callback", "take")
    /\ fault' = fault \cup BorrowFaults(pc.p)
    /\ cell' = [cell EXCEPT ![pc.p].waker = waker_take(@)]
    /\ pc' = [pc EXCEPT !.w = cell[pc.p].waker,
                        !.at = IF cell[pc.p].waker # NoWaker THEN "wake" ELSE "ret"]
    /\ UNCHANGED <<rc, borrows, fut, task, CLEANUP, obs, snap>>
    /\ HostUnchanged

\* if let Some(waker) = w { waker.wake() }
CallbackWake ==
    /\ At("callback", "wake")
    /\ obs' = [obs EXCEPT ![pc.p] = ObserveWake(@, pc.w)]
    /\ Goto("woken")
    /\ UNCHANGED <<cell, rc, borrows, fut, task, CLEANUP, fault, snap>>
    /\ HostUnchanged

\* End of `callback`: the handle rebuilt from the pointer is dropped, and the
\* host commits the execution.
CallbackReturn ==
    /\ At("callback", "ret")
    /\ rc' = [rc EXCEPT ![pc.p] = DropHandle(@)]
    /\ host' = [host EXCEPT ![pc.c] = "completed"]
    /\ snap' = <<>>
    /\ pc' = Idle
    /\ UNCHANGED <<cell, borrows, fut, task, CLEANUP, obs, fault>>
    /\ UNCHANGED <<slots, pending, msg>>

\* The host accessors read by the callback trap (or the execution runs out
\* of instructions): the callback is rolled back.
CallbackTrap ==
    /\ At("callback", "record")
    /\ Rollback(pc.c)

\* ------------------------------------------------------------------ cleanup
\* The host runs the cleanup callback of a call whose callback trapped.
HostCleanup(c, m) ==
    /\ pc.op = "idle"
    /\ host[c] = "trapped"
    /\ msg' = [msg EXCEPT ![c] = m]
    /\ snap' = <<Snapshot>>
    /\ pc' = [Idle EXCEPT !.op = "cleanup", !.c = c, !.at = "from_raw",
                          !.p = slots[c].cleanup_env]
    /\ GuestUnchanged
    /\ UNCHANGED <<host, slots, pending, fault>>

\* let state = unsafe { WasmCell::from_raw(state_ptr) };
CleanupFromRaw ==
    /\ At("cleanup", "from_raw")
    /\ fault' = fault \cup TokenFaults(pc.p)
    /\ rc' = [rc EXCEPT ![pc.p] = WasmCell_from_raw(@)]
    /\ Goto("record")
    /\ UNCHANGED <<cell, borrows, fut, task, CLEANUP, obs, snap>>
    /\ HostUnchanged

\* Mutant of cleanup_result: cleanup stores a rejection whatever the code.
cleanup_result_always_err(m) == Err(reject_code(m), reject_message(m))

\* The outcome `cleanup` stores for the message the host attached.
cleanup_result(m) == OutcomeOf(m)

\* state.borrow_mut().result = Some(match reject_code() { .. });
CleanupRecord ==
    /\ At("cleanup", "record")
    /\ fault' = fault \cup BorrowFaults(pc.p)
    /\ borrows' = [borrows EXCEPT ![pc.p] = @ + 1]
    /\ cell' = [cell EXCEPT ![pc.p].result = cleanup_result(msg[pc.c])]
    /\ obs' = [obs EXCEPT ![pc.p] = ObserveRecord(@)]
    /\ Goto("recorded")
    /\ UNCHANGED <<rc, fut, task, CLEANUP, snap>>
    /\ HostUnchanged

\* The block around the write ends, the guard drops.
CleanupUnborrow ==
    /\ At("cleanup", "recorded")
    /\ borrows' = [borrows EXCEPT ![pc.p] = 0]
    /\ Goto("take")
    /\ UNCHANGED <<cell, rc, fut, task, CLEANUP, obs, fault, snap>>
    /\ HostUnchanged

\* let w = state.borrow_mut().waker.take();
CleanupTake ==
    /\ At("cleanup", "take")
    /\ fault' = fault \cup BorrowFaults(pc.p)
    /\ cell' = [cell EXCEPT ![pc.p].waker = waker_take(@)]
    /\ pc' = [pc EXCEPT !.w = cell[pc.p].waker,
                        !.at = IF cell[pc.p].waker # NoWaker THEN "flag" ELSE "ret"]
    /\ UNCHANGED <<rc, borrows, fut, task, CLEANUP, obs, snap>>
    /\ HostUnchanged

\* Mutant of cleanup_flag_before_wake: the flag is not raised.
cleanup_flag_not_set == FALSE

\* crate::futures::CLEANUP.store(true, Ordering::Relaxed);
cleanup_flag_before_wake == TRUE

CleanupSetFlag ==
    /\ At("cleanup", "flag")
    /\ CLEANUP' = cleanup_flag_before_wake
    /\ Goto("wake")
    /\ UNCHANGED <<cell, rc, borrows, fut, task, obs, fault, snap>>
    /\ HostUnchanged

\* waker.wake();
CleanupWake ==
    /\ At("cleanup", "wake")
    /\ obs' = [obs EXCEPT ![pc.p] = ObserveWake(@, pc.w)]
    /\ Goto("woken")
    /\ UNCHANGED <<cell, rc, borrows, fut, task, CLEANUP, fault, snap>>
    /\ HostUnchanged

\* Mutant of cleanup_flag_after_wake: the flag is left raised.
cleanup_flag_left_set == TRUE

\* crate::futures::CLEANUP.store(false, Ordering::Relaxed);
cleanup_flag_after_wake == FALSE

CleanupClearFlag ==
    /\ At("cleanup", "clear")
    /\ CLEANUP' = cleanup_flag_after_wake
    /\ Goto("ret")
    /\ UNCHANGED <<cell, rc, borrows, fut, task, obs, fault, snap>>
    /\ HostUnchanged

\* End of `cleanup`: the handle rebuilt from the pointer is dropped.
CleanupReturn ==
    /\ At("cleanup", "ret")
    /\ rc' = [rc EXCEPT ![pc.p] = DropHandle(@)]
    /\ host' = [host EXCEPT ![pc.c] = "cleaned"]
    /\ snap' = <<>>
    /\ pc' = Idle
    /\ UNCHANGED <<cell, borrows, fut, task, CLEANUP, obs, fault>>
    /\ UNCHANGED <<slots, pending, msg>>


\* ------------------------------------------------------- the task scheduler
\* The waker stored by a poll belongs to the task scheduler (crate::futures).
\* wake() runs inside the callback that calls it: with CLEANUP clear it polls
\* the task, which polls the CallFuture it awaits; with CLEANUP set it drops
\* the task without running it.
Woken == pc.op \in {"callback", "cleanup"} /\ pc.at = "woken"
Awaiting(c) == task[c] = "waiting" /\ fut[c] = "held"
AfterWake == IF pc.op = "callback" THEN "ret" ELSE "clear"

\* The woken task polls its CallFuture with waker h; on Ready it runs the
\* code after the await to its end, and drops the future now or later.
SchedulerPoll(h, dropNow) ==
    /\ Woken
    /\ ~CLEANUP
    /\ Awaiting(pc.p)
    /\ LET r == CallFuture_poll(cell[pc.p], h)
           ready == r.ret.k = "Ready"
       IN  /\ TaskOutput(obs[pc.p], r.ret) # Trapped
           /\ (dropNow => ready)
           /\ cell' = [cell EXCEPT ![pc.p] = r.st]
           /\ fault' = fault \cup BorrowFaults(pc.p)
           /\ obs' = [obs EXCEPT ![pc.p] =
                        IF ready THEN ObserveContinuation(ObservePoll(@, r.ret, h))
                        ELSE ObservePoll(@, r.ret, h)]
           /\ task' = [task EXCEPT ![pc.p] = IF ready THEN "done" ELSE @]
           /\ fut' = [fut EXCEPT ![pc.p] = IF dropNow THEN "dropped" ELSE @]
           /\ rc' = [rc EXCEPT ![pc.p] = IF dropNow THEN DropHandle(@) ELSE @]
    /\ Goto(AfterWake)
    /\ UNCHANGED <<borrows, CLEANUP, snap>>
    /\ HostUnchanged

\* The woken task gets the outcome and traps in the code after the await
\* (the test canister's panic_after_async): the callback is rolled back.
ContinuationTrap ==
    /\ Woken
    /\ pc.op = "callback"
    /\ ~CLEANUP
    /\ Awaiting(pc.p)
    /\ IsSome(cell[pc.p].result)
    /\ TaskOutput(obs[pc.p], Ready(cell[pc.p].result)) # Trapped
    /\ Rollback(pc.c)

\* A poll of a typed wrapper's future finds a reply that decode_args rejects:
\* the async block calls trap.  The poll is made by the woken task inside a
\* callback, or from a top-level entry point, whose execution then starts
\* with a snapshot of its own.
DecodeTrap(c, h) ==
    /\ fut[c] = "held"
    /\ \/ Woken /\ ~CLEANUP /\ Awaiting(pc.p) /\ pc.p = c /\ UNCHANGED snap
       \/ pc.op = "idle" /\ snap' = <<Snapshot>>
    /\ LET r == CallFuture_poll(cell[c], h)
       IN  /\ TaskOutput(obs[c], r.ret) = Trapped
           /\ cell' = [cell EXCEPT ![c] = r.st]
           /\ fault' = fault \cup BorrowFaults(c)
           /\ obs' = [obs EXCEPT ![c] = ObservePoll(@, r.ret, h)]
    /\ pc' = IF pc.op = "idle"
             THEN [Idle EXCEPT !.op = "poll", !.c = c, !.p = c, !.at = "trap"]
             ELSE [pc EXCEPT !.at = "trap"]
    /\ UNCHANGED <<rc, borrows, fut, task, CLEANUP>>
    /\ HostUnchanged

\* trap(): the execution is aborted and rolled back; the trap of a callback
\* makes the host run the cleanup of the call.
TrapAbort ==
    /\ pc.at = "trap"
    /\ IF pc.op = "callback"
       THEN Rollback(pc.c)
       ELSE /\ cell' = snap[1].cell
            /\ rc' = snap[1].rc
            /\ borrows' = snap[1].borrows
            /\ fut' = snap[1].fut
            /\ task' = snap[1].task
            /\ CLEANUP' = snap[1].CLEANUP
            /\ obs' = snap[1].obs
            /\ snap' = <<>>
            /\ pc' = Idle
            /\ UNCHANGED <<host, msg, slots, pending, fault>>

\* wake() with CLEANUP set: the task is dropped, and with it the CallFuture.
SchedulerDrop ==
    /\ Woken
    /\ CLEANUP
    /\ Awaiting(pc.p)
    /\ task' = [task EXCEPT ![pc.p] = "dropped"]
    /\ fut' = [fut EXCEPT ![pc.p] = "dropped"]
    /\ rc' = [rc EXCEPT ![pc.p] = DropHandle(@)]
    /\ Goto(AfterWake)
    /\ UNCHANGED <<cell, borrows, CLEANUP, obs, fault, snap>>
    /\ HostUnchanged

\* The waker belongs to a task that no longer awaits this future.
SchedulerSkip ==
    /\ Woken
    /\ ~Awaiting(pc.p)
    /\ Goto(AfterWake)
    /\ GuestUnchanged
    /\ UNCHANGED <<fault, snap>>
    /\ HostUnchanged

\* ------------------------------------------------------------ specification
Next ==
    \/ \E c \in Calls, api \in Apis : \E payment \in PaymentsOf(api) :
           Dispatch(c, api, payment)
    \/ DispatchCallNew
    \/ DispatchDataAppend
    \/ DispatchPayment
    \/ DispatchOnCleanup
    \/ \E err_code \in PerformCodes : DispatchPerform(err_code)
    \/ DispatchCheck
    \/ DispatchUnborrow
    \/ DispatchReturn
    \/ \E c \in Calls, h \in Handles : Poll(c, h)
    \/ \E c \in Calls : DropFuture(c)
    \/ \E c \in Calls, m \in HostMsgs : HostCompletion(c, m)
    \/ CallbackFromRaw
    \/ CallbackRecord
    \/ CallbackUnborrow
    \/ CallbackTake
    \/ CallbackWake
    \/ CallbackReturn
    \/ CallbackTrap
    \/ \E c \in Calls, m \in HostMsgs : HostCleanup(c, m)
    \/ CleanupFromRaw
    \/ CleanupRecord
    \/ CleanupUnborrow
    \/ CleanupTake
    \/ CleanupSetFlag
    \/ CleanupWake
    \/ CleanupClearFlag
    \/ CleanupReturn
    \/ \E h \in Handles, dropNow \in BOOLEAN : SchedulerPoll(h, dropNow)
    \/ ContinuationTrap
    \/ SchedulerDrop
    \/ SchedulerSkip

Spec == Init /\ [][Next]_vars

\* A host that breaks its contract: it delivers a reply or reject for a call
\* whose transmission it had rejected.
HostMisfire(c, m) ==
    /\ host[c] = "rejected"
    /\ Invoke(c, m)

NextFaulty ==
    \/ Next
    \/ \E c \in Calls, m \in HostMsgs : HostMisfire(c, m)

SpecFaulty == Init /\ [][NextFaulty]_vars

\* The typed wrappers in a narrower environment: one waker, a transmission
\* that is accepted or rejected with a known code, and as the host's answer
\* the echo of the transmitted bytes, a reply that is not a Candid message, or
\* a reject.
TypedHandles == {1}
TypedPerformCodes == {0, 2}
TypedHostMsgs(c) ==
    {[code |-> 0, data |-> obs[c].sent, rejmsg |-> <<>>],
     [code |-> 0, data |-> <<1, 2>>, rejmsg |-> <<>>],
     [code |-> 4, data |-> <<>>, rejmsg |-> <<65, 66>>]}

\* The host answers the call of a typed wrapper.
TypedHostCompletion(c) == \E m \in TypedHostMsgs(c) : HostCompletion(c, m)

\* The host runs the cleanup of a typed wrapper's call.
TypedHostCleanup(c) == \E m \in TypedHostMsgs(c) : HostCleanup(c, m)

NextTyped ==
    \/ \E c \in Calls, w \in Wrappers, args \in ArgTuples :
           \E cycles \in WrapperCycles(w) : TypedDispatch(c, w, args, cycles)
    \/ DispatchCallNew
    \/ DispatchDataAppend
    \/ DispatchPayment
    \/ DispatchOnCleanup
    \/ \E err_code \in TypedPerformCodes : DispatchPerform(err_code)
    \/ DispatchCheck
    \/ DispatchUnborrow
    \/ DispatchReturn
    \/ \E c \in Calls, h \in TypedHandles : Poll(c, h)
    \/ \E c \in Calls : DropFuture(c)
    \/ \E c \in Calls : TypedHostCompletion(c)
    \/ CallbackFromRaw
    \/ CallbackRecord
    \/ CallbackUnborrow
    \/ CallbackTake
    \/ CallbackWake
    \/ CallbackReturn
    \/ CallbackTrap
    \/ \E c \in Calls : TypedHostCleanup(c)
    \/ CleanupFromRaw
    \/ CleanupRecord
    \/ CleanupUnborrow
    \/ CleanupTake
    \/ CleanupSetFlag
    \/ CleanupWake
    \/ CleanupClearFlag
    \/ CleanupReturn
    \/ \E h \in TypedHandles, dropNow \in BOOLEAN : SchedulerPoll(h, dropNow)
    \/ \E c \in Calls, h \in TypedHandles : DecodeTrap(c, h)
    \/ TrapAbort
    \/ ContinuationTrap
    \/ SchedulerDrop
    \/ SchedulerSkip

SpecTyped == Init /\ [][NextTyped]_vars

\* Progress is studied in a narrower environment: a call_raw with or without
\* payment, a transmission that is accepted or rejected with a known code,
\* and as the host's answer one reply or one reject.
LivePay64 == {<<0, 0, 0, 0>>, <<42, 0, 0, 0>>}
LivePerformCodes == {0, 2}
LiveHostMsgs ==
    {[code |-> 0, data |-> <<1, 2>>, rejmsg |-> <<>>],
     [code |-> 4, data |-> <<>>, rejmsg |-> <<65>>]}

\* The statements of call_raw_internal, callback and cleanup: a handler that
\* has been entered runs on to its end unless it traps.
HandlerStep ==
    \/ DispatchCallNew
    \/ DispatchDataAppend
    \/ DispatchPayment
    \/ DispatchOnCleanup
    \/ \E err_code \in LivePerformCodes : DispatchPerform(err_code)
    \/ DispatchCheck
    \/ DispatchUnborrow
    \/ DispatchReturn
    \/ CallbackFromRaw
    \/ CallbackRecord
    \/ CallbackUnborrow
    \/ CallbackTake
    \/ CallbackWake
    \/ CallbackReturn
    \/ CleanupFromRaw
    \/ CleanupRecord
    \/ CleanupUnborrow
    \/ CleanupTake
    \/ CleanupSetFlag
    \/ CleanupWake
    \/ CleanupClearFlag
    \/ CleanupReturn

\* wake() returns: the scheduler has polled the task, dropped it or found
\* nothing to run.
SchedulerStep ==
    \/ \E h \in Handles, dropNow \in BOOLEAN : SchedulerPoll(h, dropNow)
    \/ SchedulerDrop
    \/ SchedulerSkip

\* The host invokes the callback of an accepted call, or the cleanup of a
\* call whose callback trapped.
HostFires(c) ==
    \E m \in LiveHostMsgs : HostCompletion(c, m) \/ HostCleanup(c, m)

NextLive ==
    \/ \E c \in Calls, payment \in LivePay64 : Dispatch(c, "call_raw", payment)
    \/ HandlerStep
    \/ SchedulerStep
    \/ \E c \in Calls : HostFires(c)
    \/ \E c \in Calls, h \in Handles : Poll(c, h)
    \/ \E c \in Calls : DropFuture(c)
    \/ CallbackTrap
    \/ ContinuationTrap

\* The host answers every call it accepted, a handler that was entered runs
\* to its end, and wake() runs the scheduler before it returns.  Nothing
\* obliges a callback to trap, the holder of a future to poll it from a
\* top-level entry point, or to drop it.
Fair ==
    /\ WF_vars(HandlerStep)
    /\ WF_vars(SchedulerStep)
    /\ \A c \in Calls : WF_vars(HostFires(c))

SpecLive == Init /\ [][NextLive]_vars /\ Fair

\* =================================================================== claims
Performed(c) == obs[c].performed
Accepted(c) == obs[c].performed /\ obs[c].errCode = 0
SyncRejected(c) == obs[c].performed /\ obs[c].errCode # 0

\* `callback` has stored an outcome for call c in the execution that is
\* running, or in one the host has committed.
CompletionRecorded(c) ==
    \/ host[c] = "completed"
    \/ pc.op = "callback" /\ pc.c = c /\ obs[c].recorded

\* C1: for an accepted call whose completion callback ran with reject code
\* NoError, the first poll after the callback recorded the outcome returns
\* Ready(Ok(bytes)), bytes being exactly what the host's argument accessor
\* held during that callback, whatever polls returned Pending before.
C1_NoErrorResolvesToReplyBytes ==
    \A c \in Calls :
        (/\ Accepted(c)
         /\ CompletionRecorded(c)
         /\ msg[c].code = 0
         /\ obs[c].afterRec # NoPoll)
        => obs[c].afterRec = Ready(Ok(msg[c].data))

\* A reply of two bytes reached a task that had been suspended and was woken.
C1_Witness ==
    \E c \in Calls :
        /\ host[c] = "completed"
        /\ msg[c].code = 0
        /\ msg[c].data = <<1, 2>>
        /\ obs[c].firstPoll = Pending
        /\ obs[c].woken # <<>>
        /\ obs[c].afterRec = Ready(Ok(<<1, 2>>))

\* C2 (as claimed): for a call whose completion callback ran with a reject
\* code other than NoError, the future resolves to Err((code, message)) whose
\* code is the host-reported code and whose message is the host-reported
\* message, for every code value.
C2_RejectMatchesHostExactly ==
    \A c \in Calls :
        (/\ Accepted(c)
         /\ CompletionRecorded(c)
         /\ msg[c].code # 0
         /\ obs[c].afterRec # NoPoll)
        => /\ obs[c].afterRec.k = "Ready"
           /\ obs[c].afterRec.val.k = "Err"
           /\ RejectionCode_repr(obs[c].afterRec.val.code) = msg[c].code
           /\ as_bytes(obs[c].afterRec.val.msg) = msg[c].rejmsg

\* C3 (as claimed): for a call whose call_perform returned a non-zero code,
\* the first poll returns Ready(Err((code, "Couldn't send message"))) carrying
\* that code, no poll returns Pending before it, and neither callback runs.
C3_SyncRejectionResolvedAtOnce ==
    \A c \in Calls :
        SyncRejected(c)
        => /\ host[c] = "rejected"
           /\ ~(pc.op \in {"callback", "cleanup"} /\ pc.c = c)
           /\ ~obs[c].recorded
           /\ obs[c].firstPoll # NoPoll
              => /\ obs[c].firstPoll.k = "Ready"
                 /\ obs[c].firstPoll.val.k = "Err"
                 /\ RejectionCode_repr(obs[c].firstPoll.val.code) = obs[c].errCode
                 /\ obs[c].firstPoll.val.msg = CouldntSendMessage

\* C4 (as claimed): an outcome that is recorded in a cell is not overwritten
\* by a second recording: the slot keeps it until a poll takes it out (or a
\* trap rolls the write back).
C4_RecordedOutcomeNotOverwritten ==
    [][\A c \in Calls :
          IsSome(cell[c].result) => cell'[c].result \in {cell[c].result, None}]_vars

\* `cleanup` has signalled a waker it found in the cell of call c.
CleanupSignalled(c) ==
    \/ host[c] = "cleaned" /\ obs[c].woken # <<>>
    \/ pc.op = "cleanup" /\ pc.p = c /\ pc.at \in {"clear", "ret"} /\ pc.w # NoWaker

\* C5: when cleanup fires for a call whose task is suspended on the future,
\* the task is dropped without running the code after its await: that code
\* has not run and never runs afterwards (the future is gone with the task),
\* no continuation ever runs twice, and once cleanup has returned the cell is
\* destroyed and the flag is clear (until the cleanup of another call sets it).
C5_CleanupDropsTaskUnrun ==
    \A c \in Calls :
        /\ obs[c].contRuns <= 1
        /\ CleanupSignalled(c)
           => /\ obs[c].contRuns = 0
              /\ task[c] \in {"dropped", "abandoned"}
              /\ fut[c] = "dropped"
              /\ host[c] = "cleaned"
                 => /\ rc[c].st = "freed"
                    /\ rc[c].strong = 0
                    /\ pc.op # "cleanup" => ~CLEANUP

\* Cleanup has returned after it dropped a task that was suspended.
C5_Witness ==
    \E c \in Calls :
        /\ host[c] = "cleaned"
        /\ obs[c].woken # <<>>
        /\ task[c] = "dropped"
        /\ obs[c].contRuns = 0

\* Between the store of true and the store of false in `cleanup`.
InCleanupWindow == pc.op = "cleanup" /\ pc.at \in {"wake", "woken", "clear"}

\* C6: CLEANUP is true exactly between the store before waker.wake() and the
\* store after it in `cleanup`, and false in every other state (dispatch,
\* polls, the whole of `callback`, after cleanup returns); cleanup comes to
\* these stores only with a waker it took out of the cell.
C6_CleanupFlagOnlyAroundWake ==
    /\ CLEANUP <=> InCleanupWindow
    /\ (pc.op = "cleanup" /\ pc.at \in {"flag", "wake", "woken", "clear"})
       => pc.w # NoWaker
    /\ (pc.op = "cleanup" /\ pc.at = "ret" /\ pc.w = NoWaker)
       => obs[pc.p].woken = <<>>

\* The flag is up while the scheduler handles the wake of cleanup.
C6_Witness ==
    /\ CLEANUP
    /\ pc.op = "cleanup"
    /\ pc.at = "woken"
    /\ pc.w # NoWaker

\* Both owners of the cell of call c have let go: the host's token was
\* turned back into a handle by a committed callback that has returned, and
\* the CallFuture is dropped.
BothSidesDropped(c) ==
    /\ host[c] \in {"completed", "cleaned"}
    /\ fut[c] = "dropped"

\* C7: for an accepted call the cell is destroyed exactly when the committed
\* completion-or-cleanup invocation has returned and the CallFuture has been
\* dropped, in either order: not earlier, and then no share and no token is
\* left; until then the count is the number of handles and tokens.
C7_CellReleasedWhenBothSidesDropped ==
    \A c \in Calls :
        Accepted(c)
        => /\ rc[c].st = "freed" <=> BothSidesDropped(c)
           /\ rc[c].st = "freed" => rc[c].strong = 0 /\ rc[c].tokens = 0
           /\ rc[c].strong = rc[c].tokens + LocalShares(c) + FutShares(c)

\* The cell is destroyed by the drop of the future, after the callback.
C7_Witness ==
    \E c \in Calls :
        /\ Accepted(c)
        /\ host[c] = "completed"
        /\ task[c] = "done"
        /\ obs[c].woken = <<>>
        /\ rc[c].st = "freed"

\* C8: a CallFuture dropped before the host's invocation leaves the cell
\* alive under the host's token until completion or cleanup runs; that
\* invocation rebuilds its handle from a valid token, touches no freed cell,
\* records the outcome and empties the waker slot, and when it has returned
\* the cell is released.
C8_AbandonedCellLivesUntilCallback ==
    \A c \in Calls :
        /\ (fut[c] = "dropped" /\ host[c] \in {"accepted", "trapped"})
           => /\ rc[c].st = "live"
              /\ rc[c].strong >= 1
              /\ rc[c].tokens + LocalShares(c) = 1
        /\ fault = {}
        /\ (task[c] = "abandoned" /\ host[c] \in {"completed", "cleaned"})
           => /\ rc[c].st = "freed"
              /\ rc[c].strong = 0
              /\ obs[c].recorded
              /\ cell[c].waker = NoWaker

\* An abandoned call, suspended once, after its callback returned.
C8_Witness ==
    \E c \in Calls :
        /\ task[c] = "abandoned"
        /\ obs[c].firstPoll = Pending
        /\ host[c] = "completed"
        /\ cell[c].result = OutcomeOf(msg[c])
        /\ rc[c].st = "freed"

\* The call of c is registered: call_new and call_on_cleanup are done and
\* call_perform is next.
Registered(c) == pc.op = "dispatch" /\ pc.c = c /\ pc.at = "perform"

SlotsShareCell(c) ==
    /\ slots[c].reply_env = PtrOf(c)
    /\ slots[c].reject_env = PtrOf(c)
    /\ slots[c].cleanup_env = PtrOf(c)

\* C9 (as claimed): after registration the cell has three shares, two of
\* them lent to the host as tokens, one per callback slot.
C9_ThreeSharesTwoTokens ==
    \A c \in Calls :
        Registered(c)
        => /\ rc[c].strong = 3
           /\ rc[c].tokens = 2
           /\ SlotsShareCell(c)

\* C9 (amended): the dispatch routine makes one token from one additional
\* share and registers that one pointer in the reply, the reject and the
\* cleanup slot: after registration the cell has two shares, one kept for
\* the CallFuture and one lent to the host, and every slot refers to the
\* storage the CallFuture observes.
C9_TwoSharesOneToken ==
    \A c \in Calls :
        Registered(c)
        => /\ rc[c].strong = 2
           /\ rc[c].tokens = 1
           /\ LocalShares(c) = 1
           /\ SlotsShareCell(c)

C9_Witness ==
    \E c \in Calls :
        /\ Registered(c)
        /\ rc[c].st = "live"
        /\ slots[c].cleanup_env = PtrOf(c)

\* The names of the host primitives issued so far by the running dispatch.
PendingOps == [i \in 1..Len(pending) |-> pending[i].op]

\* The sequences of primitives one dispatch may issue.
DispatchOrders ==
    {<<"call_new", "call_data_append">> \o pay \o <<"call_on_cleanup", "call_perform">> :
        pay \in {<<>>, <<"call_cycles_add">>, <<"call_cycles_add128">>}}

IsPrefix(s, t) == Len(s) <= Len(t) /\ SubSeq(t, 1, Len(s)) = s

\* C10: a dispatch issues call_new once, then call_data_append, then at most
\* one cycle-add, then call_on_cleanup, then call_perform once and last; a
\* dispatch that has transmitted has issued all of them in this order, and
\* a call the host knows as transmitted was registered by such a dispatch.
C10_HostPrimitivesInOrder ==
    /\ \E o \in DispatchOrders : IsPrefix(PendingOps, o)
    /\ (pc.op = "dispatch" /\ pc.at \in {"check", "written", "ret"})
       <=> PendingOps \in DispatchOrders
    /\ pc.op = "dispatch" => (Len(pending) >= 1 <=> host[pc.c] # "unused")
    /\ pc.op # "dispatch" => pending = <<>>
    /\ \A c \in Calls :
          /\ Performed(c) <=> host[c] \notin {"unused", "registered"}
          /\ host[c] = "registered" => pc.op = "dispatch" /\ pc.c = c

\* A dispatch that paid is about to return: five primitives were issued.
C10_Witness ==
    /\ pc.op = "dispatch"
    /\ pc.at = "ret"
    /\ Len(pending) = 5
    /\ pending[3].op = "call_cycles_add128"

\* The 64 bits of an i64 argument, as the unsigned number the host reads.
BitsOfI64(i) == IF i.neg THEN WrappingNeg(i.mag) ELSE i.mag

\* The cycle-add primitives issued so far by the running dispatch.
CycleAdds ==
    {i \in 1..Len(pending) :
        pending[i].op \in {"call_cycles_add", "call_cycles_add128"}}

\* The running dispatch came from call_raw128 with payment > 0 and is past
\* payment_func.
Paid128 ==
    /\ pc.op = "dispatch"
    /\ pc.api = "call_raw128"
    /\ GtZero(pc.pay)
    /\ pc.at \in {"on_cleanup", "perform", "check", "written", "ret"}

\* C11: for a 128-bit payment p > 0 given to call_raw128, the dispatch issues
\* the 128-bit cycle-add primitive exactly once (and no 64-bit one), after
\* call_data_append and before call_perform, and its two 64-bit arguments are
\* the halves of p: low is p mod 2^64, high is p div 2^64, so that
\* high * 2^64 + low = p.
C11_Payment128SplitIntoHalves ==
    Paid128
    => /\ CycleAdds = {3}
       /\ pending[3].op = "call_cycles_add128"
       /\ BitsOfI64(pending[3].lo) \o BitsOfI64(pending[3].hi) = pc.pay
       /\ \A i \in 1..Len(pending) : pending[i].op = "call_perform" => i > 3

\* A payment of 2^64 + 42 was added and the call is transmitted.
C11_Witness ==
    /\ Paid128
    /\ pc.at = "ret"
    /\ pc.pay = <<42, 0, 0, 0, 1, 0, 0, 0>>
    /\ BitsOfI64(pending[3].hi) = <<1, 0, 0, 0>>
    /\ BitsOfI64(pending[3].lo) = <<42, 0, 0, 0>>

\* The callback or cleanup of call c has just written its outcome.
JustRecorded(c) ==
    pc.op \in {"callback", "cleanup"} /\ pc.p = c /\ pc.at = "recorded"

\* C13: no cell ever holds Err((NoError, _)), whether the outcome was written
\* by callback, by cleanup or by the synchronous-failure path of the dispatch,
\* and no poll ever hands such a value out; a callback or cleanup that runs
\* with reject code NoError stores Ok(the host's reply bytes).
C13_NoErrorNeverStoredAsError ==
    \A c \in Calls :
        /\ cell[c].result.k = "Err" => cell[c].result.code # "NoError"
        /\ (obs[c].lastPoll.k = "Ready" /\ obs[c].lastPoll.val.k = "Err")
           => obs[c].lastPoll.val.code # "NoError"
        /\ (JustRecorded(c) /\ msg[pc.c].code = 0)
           => cell[c].result = Ok(msg[pc.c].data)
        /\ (JustRecorded(c) /\ msg[pc.c].code # 0)
           => cell[c].result.k = "Err"
        /\ (pc.op = "dispatch" /\ pc.c = c /\ pc.at = "written")
           => cell[c].result.k = "Err"

\* A NoError completion with a two-byte reply has just been stored.
C13_Witness ==
    \E c \in Calls :
        /\ JustRecorded(c)
        /\ pc.op = "callback"
        /\ msg[c].code = 0
        /\ cell[c].result = Ok(<<1, 2>>)

\* The step is a poll of the CallFuture of call c with waker h: from a
\* top-level entry point, or by the task the scheduler runs inside a callback.
PollStep(c, h) ==
    \/ Poll(c, h)
    \/ pc.p = c /\ \E dropNow \in BOOLEAN : SchedulerPoll(h, dropNow)

\* C16: a poll returns Pending exactly when the cell holds no outcome at the
\* time of the poll; such a poll leaves the outcome slot empty and stores its
\* own waker over whatever waker was stored, so the cell holds the waker of
\* the most recent Pending poll, and that waker (no earlier one) is the one a
\* callback or cleanup takes out and signals.
C16_PendingIffNoOutcomeStoresLatestHandle ==
    /\ [][\A c \in Calls, h \in Handles :
             PollStep(c, h)
             => /\ obs'[c].lastPoll = Pending <=> cell[c].result = None
                /\ obs'[c].lastPoll = Pending
                   => /\ cell'[c].result = None
                      /\ cell'[c].waker = h
                      /\ obs'[c].lastHandle = h
                /\ obs'[c].lastPoll # Pending
                   => /\ obs'[c].lastPoll = Ready(cell[c].result)
                      /\ cell'[c].waker = cell[c].waker]_vars
    /\ [](\A c \in Calls :
             /\ cell[c].waker # NoWaker
                => obs[c].lastPoll = Pending /\ cell[c].waker = obs[c].lastHandle
             /\ (pc.op \in {"callback", "cleanup"} /\ pc.p = c
                   /\ pc.at \in {"flag", "wake"})
                => pc.w = obs[c].lastHandle /\ obs[c].lastPoll = Pending)

\* The callback is about to signal waker 2, stored by the latest of the
\* Pending polls.
C16_Witness ==
    \E c \in Calls :
        /\ pc.op = "callback" /\ pc.p = c /\ pc.at = "wake"
        /\ pc.w = 2
        /\ obs[c].firstPoll = Pending
        /\ obs[c].lastHandle = 2

\* C17: the recorded outcome leaves the cell exactly once: at most one poll of
\* a call returns Ready, that poll empties the outcome slot, and every poll
\* made after it finds no outcome and returns Pending, storing its waker.
C17_OutcomeTakenOnce ==
    /\ [](\A c \in Calls :
             /\ obs[c].readies <= 1
             /\ obs[c].readies = 1 => cell[c].result = None
             /\ (obs[c].readies = 1 /\ obs[c].lastPoll = Pending)
                => cell[c].waker = obs[c].lastHandle)
    /\ [][\A c \in Calls, h \in Handles :
             (obs[c].readies >= 1 /\ PollStep(c, h))
             => /\ obs'[c].lastPoll = Pending
                /\ obs'[c].readies = obs[c].readies
                /\ cell'[c] = [result |-> None, waker |-> h]]_vars

\* A task got the reply, and a later poll of the same future was suspended.
C17_Witness ==
    \E c \in Calls :
        /\ obs[c].readies = 1
        /\ obs[c].afterRec = Ready(Ok(<<1, 2>>))
        /\ obs[c].lastPoll = Pending
        /\ cell[c].waker # NoWaker

\* The running handler is callback or cleanup, at one of its own statements
\* (not inside the scheduler's wake).
InCallbackCode ==
    pc.op \in {"callback", "cleanup"} /\ pc.at # "woken"

\* What polls have shown of call c, and what became of its task.
PollView(c) ==
    <<obs[c].firstPoll, obs[c].lastPoll, obs[c].lastHandle, obs[c].readies,
      obs[c].contRuns, task[c], fut[c]>>

\* C18: callback and cleanup take the stored waker out of the cell and signal
\* it at most once: a call's wakers are signalled at most once in all, the
\* waker slot is empty from the take until the callback returns, nothing is
\* signalled when the slot was empty, the signalled waker is the one taken,
\* and no statement of callback or cleanup polls the CallFuture (what polls
\* have returned, and the state of the task, do not change across them).
C18_WakerTakenAndSignalledOnce ==
    /\ [](\A c \in Calls :
             /\ Len(obs[c].woken) <= 1
             /\ (pc.op \in {"callback", "cleanup"} /\ pc.p = c
                   /\ pc.at \in {"flag", "wake", "woken", "clear", "ret"})
                => /\ cell[c].waker = NoWaker
                   /\ pc.w = NoWaker => obs[c].woken = <<>>
                   /\ pc.at \in {"woken", "clear"} => obs[c].woken = <<pc.w>>
                   /\ pc.at \in {"flag", "wake"}
                      => pc.w # NoWaker /\ obs[c].woken = <<>>)
    /\ [][InCallbackCode
           => \A c \in Calls : PollView(c)' = PollView(c)]_vars

\* A callback that signalled the waker it took is about to return.
C18_Witness ==
    \E c \in Calls :
        /\ pc.op = "callback" /\ pc.p = c /\ pc.at = "ret"
        /\ pc.w # NoWaker
        /\ obs[c].woken = <<pc.w>>
        /\ cell[c].waker = NoWaker

\* The places where the running handler holds the guard of its write.
HoldsGuard(c) ==
    \/ pc.op \in {"callback", "cleanup"} /\ pc.p = c /\ pc.at = "recorded"
    \/ pc.op = "dispatch" /\ pc.c = c /\ pc.at = "written"

\* C19: no cell ever has two exclusive borrows at once and no borrow_mut ever
\* panics: a guard exists only between a write of the outcome and the end of
\* the block around it, so callback and cleanup hold none when they take and
\* signal the waker (the poll the scheduler makes inside wake() borrows a free
\* cell), the dispatch holds none when it returns the future, and none is
\* held between entry points.
C19_NoReentrantBorrow ==
    \A c \in Calls :
        /\ borrows[c] \in {0, 1}
        /\ borrows[c] = 1 <=> HoldsGuard(c)
        /\ "double_borrow" \notin fault
        /\ (pc.op \in {"callback", "cleanup"} /\ pc.p = c
              /\ pc.at \in {"take", "flag", "wake", "woken", "clear", "ret"})
           => borrows[c] = 0
        /\ (pc.op = "dispatch" /\ pc.c = c /\ pc.at = "ret") => borrows[c] = 0
        /\ pc.op = "idle" => borrows[c] = 0

\* The task woken by the callback polled the future inside wake() and got
\* the outcome.
C19_Witness ==
    \E c \in Calls :
        /\ pc.op = "callback" /\ pc.p = c /\ pc.at = "ret"
        /\ obs[c].woken # <<>>
        /\ obs[c].lastPoll.k = "Ready"
        /\ borrows[c] = 0
        /\ fault = {}

\* The cell of call c as the running callback or cleanup found it on entry.
PriorCell(c) == snap[1].cell[c]

\* The running handler is callback or cleanup for the cell of call c and has
\* taken the waker: its own writes to the cell are done.
WritesDone(c) ==
    /\ pc.op \in {"callback", "cleanup"}
    /\ pc.p = c
    /\ pc.at \in {"flag", "wake"} \/ (pc.at = "ret" /\ pc.w = NoWaker)

TypedPollStep(c, h) == PollStep(c, h) \/ DecodeTrap(c, h)

\* The typed future of call c has handed an Err to the task.
HandedErr(c) == obs[c].out.k = "Ready" /\ obs[c].out.val.k = "Err"

\* The typed future of call c has handed an Ok to the task.
HandedOk(c) == obs[c].out.k = "Ready" /\ obs[c].out.val.k = "Ok"

\* C12: a typed wrapper surfaces a synchronous rejection as it surfaces an
\* asynchronous one: the poll that finds an Err in the cell, whether the
\* dispatch wrote it or a callback, yields exactly that Err((code, message))
\* as the wrapper's output and does not trap; an Err the wrapper handed out
\* is the one the dispatch wrote for a rejected transmission or the one
\* recorded from the host's reject, and a trap happens only on an Ok outcome.
C12_RejectionsSurfaceAlike ==
    /\ [](\A c \in Calls :
             obs[c].typed
             => /\ HandedErr(c)
                   => \/ /\ SyncRejected(c)
                         /\ obs[c].out.val = SyncFailure(obs[c].errCode)
                      \/ /\ Accepted(c)
                         /\ obs[c].recorded
                         /\ msg[c].code # 0
                         /\ obs[c].out.val =
                                Err(reject_code(msg[c]), reject_message(msg[c]))
                /\ (obs[c].lastPoll.k = "Ready" /\ obs[c].lastPoll.val.k = "Err")
                   => obs[c].out = obs[c].lastPoll
                /\ (pc.at = "trap" /\ pc.c = c)
                   => obs[c].lastPoll.val.k = "Ok")
    /\ [][\A c \in Calls, h \in Handles :
             (obs[c].typed /\ cell[c].result.k = "Err" /\ TypedPollStep(c, h))
             => /\ obs'[c].out = Ready(cell[c].result)
                /\ pc'.at # "trap"]_vars

\* The first poll of a typed call the host refused to transmit handed the
\* task the Err the dispatch wrote.
C12_Witness ==
    \E c \in Calls :
        /\ obs[c].typed
        /\ SyncRejected(c)
        /\ obs[c].firstPoll.k = "Ready"
        /\ obs[c].out = Ready(Err("SysTransient", CouldntSendMessage))

\* The host answered call c with the bytes the wrapper had transmitted.
Echoed(c) ==
    /\ obs[c].typed
    /\ CompletionRecorded(c)
    /\ msg[c].code = 0
    /\ msg[c].data = obs[c].sent

\* C14: when the host answers a typed call with a NoError completion whose
\* reply bytes are the bytes the wrapper transmitted, the wrapper's future
\* yields Ok(v) with v the original arguments (empty, single or two-valued
\* tuple) and never traps; the bytes transmitted are the encoding of the
\* arguments.
C14_EchoRoundTrip ==
    \A c \in Calls :
        /\ (obs[c].typed /\ Performed(c)) => obs[c].sent = encode_args(obs[c].args)
        /\ (Echoed(c) /\ obs[c].afterRec # NoPoll)
           => obs[c].out = Ready(TypedOk(obs[c].args))
        /\ Echoed(c) => ~(pc.at = "trap" /\ pc.c = c)

\* The echo of a two-valued tuple came back as the tuple.
C14_Witness ==
    \E c \in Calls :
        /\ Echoed(c)
        /\ host[c] = "completed"
        /\ obs[c].args = <<Nat8(42), Bool(TRUE)>>
        /\ obs[c].out = Ready(TypedOk(<<Nat8(42), Bool(TRUE)>>))

\* The reply the running or committed callback (or cleanup) recorded for the
\* typed call c does not decode at the expected types.
RecordedMalformed(c) ==
    /\ obs[c].typed
    /\ obs[c].recorded
    /\ msg[c].code = 0
    /\ ~decode_args(msg[c].data, TypesOf(obs[c].args)).ok

Dispatching(c, ats) == pc.op = "dispatch" /\ pc.c = c /\ pc.at \in ats

\* C21: under the host contract the outcome slot of a cell is written once
\* over the life of the call.  The cell is created with no outcome and no
\* waker; a dispatch whose transmission is accepted returns without a write;
\* a dispatch whose transmission is rejected makes the one write itself, and
\* no callback adds another; for an accepted call the one write is that of
\* the completion or cleanup callback whose execution the host commits (the
\* write of a callback that traps is undone with it).
C21_OutcomeWrittenOnce ==
    \A c \in Calls :
        /\ obs[c].writes <= 1
        /\ Dispatching(c, {"call_new", "data_append", "payment", "on_cleanup",
                           "perform", "check"})
               => /\ cell[c] = [result |-> None, waker |-> NoWaker]
                  /\ obs[c].writes = 0
        /\ Dispatching(c, {"ret"}) /\ Accepted(c)
               => cell[c].result = None /\ obs[c].writes = 0
        /\ Dispatching(c, {"written", "ret"}) /\ SyncRejected(c)
               => /\ cell[c].result = SyncFailure(obs[c].errCode)
                  /\ obs[c].writes = 1
        /\ SyncRejected(c) /\ ~Dispatching(c, {"check"})
               => obs[c].writes = 1 /\ ~obs[c].recorded
        /\ Accepted(c) => obs[c].writes = (IF obs[c].recorded THEN 1 ELSE 0)
        /\ host[c] \in {"completed", "cleaned"}
               => obs[c].writes = 1 /\ obs[c].recorded
        /\ host[c] \in {"accepted", "trapped"} /\ ~(pc.op \in {"callback", "cleanup"} /\ pc.c = c)
               => obs[c].writes = 0

\* The callback of an accepted call wrote an outcome and trapped, and the
\* cleanup the host ran afterwards made the one write that is committed.
C21_Witness ==
    \E c \in Calls :
        /\ host[c] = "cleaned"
        /\ obs[c].writes = 1
        /\ obs[c].recorded

\* C22: release on synchronous rejection.  For a call whose transmission
\* returned a non-zero code, once the dispatch has returned and the Call
\* Future has been dropped, no raw token of the cell is outstanding and the
\* cell has no share left: it is destroyed.
C22_SyncRejectedCellReleased ==
    \A c \in Calls :
        SyncRejected(c) /\ fut[c] = "dropped"
            => /\ rc[c].tokens = 0
               /\ rc[c].strong = 0
               /\ rc[c].st = "freed"

\* The cell of call c exists or has existed.
Born(c) == rc[c].st # "unborn"

\* C23: the token is used once, also across a trap.  One pointer is
\* registered for the reply, reject and cleanup slots; over the executions
\* the host commits, from_raw is applied to it at most once for the one share
\* into_raw converted: the token count is 1 or 0 and never negative, and no
\* from_raw ever meets a token that is already used or a cell that is gone.
\* When cleanup starts (the callback trapped and was rolled back) the token
\* is outstanding again and the cell is alive.  The share count is never
\* below the live handles plus the outstanding tokens, the cell is destroyed
\* exactly when the count is zero, and no handler touches a destroyed cell.
C23_TokenUsedOnceAcrossTraps ==
    /\ fault \cap {"invalid_token", "use_after_free"} = {}
    /\ \A c \in Calls :
          /\ rc[c].tokens \in {0, 1}
          /\ rc[c].strong >= rc[c].tokens + LocalShares(c) + FutShares(c)
          /\ Born(c) => (rc[c].st = "freed" <=> rc[c].strong = 0)
          /\ slots[c].cleanup_env # 0
                => /\ slots[c].reply_env = slots[c].cleanup_env
                   /\ slots[c].reject_env = slots[c].cleanup_env
          /\ host[c] \in {"accepted", "trapped"}
                /\ ~(pc.op \in {"callback", "cleanup"} /\ pc.c = c)
                => rc[c].tokens = 1 /\ rc[c].st = "live"
          /\ pc.op \in {"callback", "cleanup"} /\ pc.c = c
                => /\ rc[pc.p].st = "live"
                   /\ rc[pc.p].tokens = (IF pc.at = "from_raw" THEN 1 ELSE 0)
          /\ host[c] \in {"completed", "cleaned"} => rc[c].tokens = 0

\* The callback of a call rebuilt a handle from the token and trapped; the
\* cleanup the host runs next has rebuilt its handle from the same token.
C23_Witness ==
    \E c \in Calls :
        /\ host[c] = "trapped"
        /\ pc.op = "cleanup" /\ pc.c = c /\ pc.at = "record"
        /\ rc[c].tokens = 0
        /\ rc[c].st = "live"
        /\ fault = {}

\* The running dispatch is past payment_func.
PastPayment ==
    /\ pc.op = "dispatch"
    /\ pc.at \in {"on_cleanup", "perform", "check", "written", "ret"}

\* C25: the payment decides the cycle-add primitive and nothing else.  A
\* dispatch with payment 0, through call_raw or call_raw128, issues no
\* cycle-add primitive; a dispatch through call_raw with payment p > 0 issues
\* the 64-bit primitive once, between call_data_append and call_on_cleanup,
\* with an argument whose 64 bits are those of p, and never the 128-bit one.
\* The outcome does not depend on the payment: the dispatch writes the
\* failure of the code call_perform returned, a callback or cleanup the
\* outcome of the message the host attached.
C25_PaymentOnlyAddsCycles ==
    /\ pc.op = "dispatch" /\ ~PastPayment => CycleAdds = {}
    /\ PastPayment /\ ~GtZero(pc.pay) => CycleAdds = {}
    /\ PastPayment /\ pc.api = "call_raw" /\ GtZero(pc.pay)
          => /\ CycleAdds = {3}
             /\ pending[3].op = "call_cycles_add"
             /\ pending[3].hi = <<>>
             /\ BitsOfI64(pending[3].lo) = pc.pay
    /\ pc.op = "dispatch" /\ pc.at \in {"written", "ret"}
          => cell[pc.c].result =
                (IF pc.err # 0 THEN SyncFailure(pc.err) ELSE None)
    /\ \A c \in Calls :
          JustRecorded(c) => cell[c].result = OutcomeOf(msg[pc.c])

\* A call_raw with payment u64::MAX added its cycles with the i64 -1 and
\* is about to return; the same call without payment would have issued four
\* primitives, not five.
C25_Witness ==
    /\ PastPayment
    /\ pc.at = "ret"
    /\ pc.api = "call_raw"
    /\ pc.pay = <<65535, 65535, 65535, 65535>>
    /\ Len(pending) = 5
    /\ pending[3] = HostCall("call_cycles_add", <<>>, [neg |-> TRUE, mag |-> <<1, 0, 0, 0>>])

\* The task of call c is suspended on its CallFuture: the call was accepted
\* and its callback has not returned or trapped, the latest poll returned
\* Pending, and the future is still held.
Suspended(c) ==
    /\ host[c] = "accepted"
    /\ Awaiting(c)
    /\ obs[c].lastPoll = Pending

\* What C24 says of single states: `callback` takes and signals the waker
\* stored by the latest Pending poll; the first poll after an outcome was
\* recorded returns Ready with that outcome; and when the host has committed
\* the callback of a call whose future had returned Pending before it, a
\* waker was signalled and the task has been given Ready, unless its holder
\* dropped the future.
C24_Signalled ==
    \A c \in Calls :
        /\ pc.op = "callback" /\ pc.p = c /\ pc.at = "take"
              => cell[c].waker = obs[c].lastHandle
        /\ pc.op = "callback" /\ pc.p = c /\ pc.at \in {"wake", "woken"}
              => pc.w = obs[c].lastHandle /\ pc.w # NoWaker
        /\ pc.op = "callback" /\ pc.p = c /\ pc.at = "woken"
              => obs[c].woken = <<obs[c].lastHandle>>
        /\ obs[c].recorded /\ obs[c].afterRec # NoPoll
              => obs[c].afterRec = Ready(OutcomeOf(msg[c]))
        /\ host[c] = "completed" /\ obs[c].firstPoll = Pending
              => /\ Len(obs[c].woken) = 1
                 /\ obs[c].readies >= 1 \/ task[c] = "abandoned"
        /\ task[c] = "dropped" => host[c] \in {"trapped", "cleaned"}

\* C24 as stated: no wake-up is lost, and with a fair host and scheduler
\* every suspended CallFuture that is not given up by its holder eventually
\* returns Ready.
C24_EveryAwaitedFutureReady ==
    /\ []C24_Signalled
    /\ \A c \in Calls :
          Suspended(c) ~> (obs[c].readies >= 1 \/ task[c] = "abandoned")

\* C24: no wake-up is lost.  For an accepted call whose future returned
\* Pending, `callback` signals the waker of the latest such poll and the next
\* poll returns Ready with the recorded outcome; with a fair host and
\* scheduler every suspended CallFuture that is not given up by its holder
\* eventually returns Ready, or its callback traps and the cleanup that
\* follows drops the task without polling the future again.
C24_NoLostWakeup ==
    /\ []C24_Signalled
    /\ \A c \in Calls :
          Suspended(c) ~> \/ obs[c].readies >= 1
                          \/ task[c] = "abandoned"
                          \/ task[c] = "dropped" /\ host[c] \in {"trapped", "cleaned"}

\* A future that had returned Pending with waker 2 was signalled by the
\* callback through that waker, and the poll the scheduler made returned the
\* recorded outcome.
C24_Witness ==
    \E c \in Calls :
        /\ host[c] = "completed"
        /\ obs[c].firstPoll = Pending
        /\ obs[c].lastHandle = 2
        /\ obs[c].woken = <<2>>
        /\ obs[c].afterRec = Ready(OutcomeOf(msg[c]))
        /\ obs[c].readies = 1
        /\ task[c] = "done"

====
